---- MODULE Spec2Model ----
(***************************************************************************)
(* A model of the Gas Market Intelligence Streamlit application            *)
(* (src/streamlit_app.py): the record sheet and the History sheet, the     *)
(* Add / Edit / Delete handlers, the hierarchical filter panel and the     *)
(* period-code vocabulary.                                                 *)
(*                                                                         *)
(* Text is modelled character by character: a Python str is a sequence of  *)
(* one-character strings, so that split, strip, join, substring search,    *)
(* lower-casing and lexicographic sorting are computed as Python computes  *)
(* them.                                                                    *)
(***************************************************************************)
EXTENDS Integers, Sequences, FiniteSets, TLC

(***************************************************************************)
(* Python str operations.                                                  *)
(***************************************************************************)

\* The characters the model uses, in ascending code-point order.
Alphabet ==
    << " ", ",", "-", ".", "/",
       "0", "1", "2", "3", "4", "5", "6", "7", "8", "9",
       "A", "B", "C", "D", "E", "F", "G", "H", "I", "J", "K", "L", "M",
       "N", "O", "P", "Q", "R", "S", "T", "U", "V", "W", "X", "Y", "Z",
       "a", "b", "c", "d", "e", "f", "g", "h", "i", "j", "k", "l", "m",
       "n", "o", "p", "q", "r", "s", "t", "u", "v", "w", "x", "y", "z",
       "|" >>

Range(f) == { f[i] : i \in DOMAIN f }

\* The rank of a character in code-point order.
Ord == [ c \in Range(Alphabet) |-> CHOOSE i \in DOMAIN Alphabet : Alphabet[i] = c ]

UpperCaseLetters == { Alphabet[i] : i \in Ord["A"] .. Ord["Z"] }
LowerCaseLetters == { Alphabet[i] : i \in Ord["a"] .. Ord["z"] }

\* str.lower() and str.upper(), one character at a time.
LowerChar(c) == IF c \in UpperCaseLetters THEN Alphabet[Ord[c] + (Ord["a"] - Ord["A"])] ELSE c
UpperChar(c) == IF c \in LowerCaseLetters THEN Alphabet[Ord[c] - (Ord["a"] - Ord["A"])] ELSE c
Lower(s) == [ i \in DOMAIN s |-> LowerChar(s[i]) ]
Upper(s) == [ i \in DOMAIN s |-> UpperChar(s[i]) ]

MinOf(a, b) == IF a <= b THEN a ELSE b

\* a < b for Python strings: lexicographic by code point.
StrLess(a, b) ==
    \E k \in 0 .. MinOf(Len(a), Len(b)) :
        /\ \A i \in 1 .. k : a[i] = b[i]
        /\ \/ k = Len(a) /\ k < Len(b)
           \/ k < Len(a) /\ k < Len(b) /\ Ord[a[k + 1]] < Ord[b[k + 1]]

\* `sub in s` for Python strings.
Contains(sub, s) ==
    \E i \in 0 .. (Len(s) - Len(sub)) : SubSeq(s, i + 1, i + Len(sub)) = sub

\* s[:n] and s[-n:]
Prefix(s, n) == SubSeq(s, 1, MinOf(n, Len(s)))
Suffix(s, n) == SubSeq(s, Len(s) - MinOf(n, Len(s)) + 1, Len(s))

\* str.strip(): leading and trailing blanks removed.
RECURSIVE LStrip(_)
LStrip(s) == IF s # << >> /\ Head(s) = " " THEN LStrip(Tail(s)) ELSE s
RECURSIVE RStrip(_)
RStrip(s) == IF s # << >> /\ s[Len(s)] = " " THEN RStrip(SubSeq(s, 1, Len(s) - 1)) ELSE s
Strip(s) == RStrip(LStrip(s))

\* s.split(","): the pieces between commas; "".split(",") is [""].
RECURSIVE Split(_)
Split(s) ==
    IF \A i \in DOMAIN s : s[i] # ","
    THEN << s >>
    ELSE LET i == CHOOSE j \in DOMAIN s :
                      s[j] = "," /\ \A k \in 1 .. (j - 1) : s[k] # ","
         IN  << SubSeq(s, 1, i - 1) >> \o Split(SubSeq(s, i + 1, Len(s)))

\* sep.join(parts)
RECURSIVE Join(_, _)
Join(sep, parts) ==
    IF parts = << >> THEN << >>
    ELSE IF Len(parts) = 1 THEN parts[1]
    ELSE parts[1] \o sep \o Join(sep, Tail(parts))

\* sorted(set(...)): the elements of a set of strings, ascending.
RECURSIVE SortedSet(_)
SortedSet(S) ==
    IF S = {} THEN << >>
    ELSE LET m == CHOOSE x \in S : \A y \in S \ {x} : StrLess(x, y)
         IN  << m >> \o SortedSet(S \ {m})

\* sorted(list): a list of strings in ascending order, duplicates kept in their
\* order (the sort is stable).  Element j goes to the position that counts the
\* elements below it and the equal ones before it.
Sorted(list) ==
    LET n == Len(list)
        position == { << Cardinality({ k \in 1 .. n : StrLess(list[k], list[j]) })
                         + Cardinality({ k \in 1 .. (j - 1) : list[k] = list[j] }) + 1, j >>
                      : j \in 1 .. n }
    IN  [ i \in 1 .. n |-> list[CHOOSE j \in 1 .. n : << i, j >> \in position] ]

\* str(n) for a natural number: its decimal digits.
Digit(d) == Alphabet[Ord["0"] + d]
RECURSIVE Str(_)
Str(n) == IF n < 10 THEN << Digit(n) >> ELSE Str(n \div 10) \o << Digit(n % 10) >>

\* The elements of a list selected by a predicate on positions, order kept.
RECURSIVE SelectIdx(_, _, _)
SelectIdx(list, keep, i) ==
    IF i > Len(list) THEN << >>
    ELSE (IF keep[i] THEN << list[i] >> ELSE << >>) \o SelectIdx(list, keep, i + 1)

(***************************************************************************)
(* Program constants (src/streamlit_app.py, lines 22-34).                  *)
(***************************************************************************)

REQUIRED_COLUMNS ==
    { "Timestamp", "Name", "Counterparty", "Country", "Point Type", "Point Name",
      "Date", "Info", "Capacity Value", "Capacity Unit", "Volume Value",
      "Volume Unit", "Tags" }

Turkey == << "T", "u", "r", "k", "e", "y" >>
Bulgaria == << "B", "u", "l", "g", "a", "r", "i", "a" >>
Romania == << "R", "o", "m", "a", "n", "i", "a" >>
Greece == << "G", "r", "e", "e", "c", "e" >>
Serbia == << "S", "e", "r", "b", "i", "a" >>
Hungary == << "H", "u", "n", "g", "a", "r", "y" >>
Croatia == << "C", "r", "o", "a", "t", "i", "a" >>
Slovenia == << "S", "l", "o", "v", "e", "n", "i", "a" >>
Austria == << "A", "u", "s", "t", "r", "i", "a" >>
Slovakia == << "S", "l", "o", "v", "a", "k", "i", "a" >>
Ukraine == << "U", "k", "r", "a", "i", "n", "e" >>
Moldova == << "M", "o", "l", "d", "o", "v", "a" >>
COUNTRIES_LIST ==
    << Turkey, Bulgaria, Romania, Greece, Serbia, Hungary,
       Croatia, Slovenia, Austria, Slovakia, Ukraine, Moldova >>

VirtualPoint == << "V", "i", "r", "t", "u", "a", "l", " ", "P", "o", "i", "n", "t" >>
CrossborderPoint ==
    << "C", "r", "o", "s", "s", "b", "o", "r", "d", "e", "r", " ", "P", "o", "i", "n", "t" >>
Storage == << "S", "t", "o", "r", "a", "g", "e" >>
EntireCountry == << "E", "n", "t", "i", "r", "e", " ", "C", "o", "u", "n", "t", "r", "y" >>
POINT_TYPES == << VirtualPoint, CrossborderPoint, Storage, EntireCountry >>

MGP == << "M", "G", "P" >>
AT_VTP == << "A", "T", "-", "V", "T", "P" >>
VIRTUAL_POINTS == << MGP, AT_VTP >>

MMBF == << "M", "M", "B", "F" >>
HEXUM == << "H", "E", "X", "U", "M" >>
STORAGE_POINTS == << MMBF, HEXUM >>

outage == << "o", "u", "t", "a", "g", "e" >>
maintenance == << "m", "a", "i", "n", "t", "e", "n", "a", "n", "c", "e" >>
regulatory == << "r", "e", "g", "u", "l", "a", "t", "o", "r", "y" >>
forecast == << "f", "o", "r", "e", "c", "a", "s", "t" >>
PREDEFINED_TAGS == << outage, maintenance, regulatory, forecast >>

\* The literals "All" and "Other..." of the select boxes, and the empty string.
All == << "A", "l", "l" >>
Other == << "O", "t", "h", "e", "r", ".", ".", "." >>
Empty == << >>

(***************************************************************************)
(* State.                                                                  *)
(***************************************************************************)

VARIABLES
    sheet,          \* the rows of the record worksheet, in order (header row left out)
    history,        \* the rows of the "History" worksheet, in order
    script_run,     \* what the last run of the script did: mode, button, outcome
    session_state,  \* the filter widgets' values (st.session_state)
    current_year,   \* datetime.today().year
    date_code,      \* the period code selected in "Select Period Code"
    custom_code,    \* the text of "Or enter custom period code"
    runs            \* per browser session, the run of the script in progress, call by call

vars ==
    << sheet, history, script_run, session_state, current_year, date_code, custom_code, runs >>
storeVars == << sheet, history, script_run >>
tenorVars == << current_year, date_code, custom_code >>

(***************************************************************************)
(* The period-code vocabulary (lines 377-396).                             *)
(***************************************************************************)

\* range(a, b)
PyRange(a, b) == [ i \in 1 .. (b - a) |-> a + i - 1 ]

\* The concatenation of a list of lists.
Flatten(lists) ==
    LET RECURSIVE Upto(_)
        Upto(k) == IF k = 0 THEN << >> ELSE Upto(k - 1) \o lists[k]
    IN  Upto(Len(lists))

MONTHS ==
    << << "J", "a", "n" >>, << "F", "e", "b" >>, << "M", "a", "r" >>,
       << "A", "p", "r" >>, << "M", "a", "y" >>, << "J", "u", "n" >>,
       << "J", "u", "l" >>, << "A", "u", "g" >>, << "S", "e", "p" >>,
       << "O", "c", "t" >>, << "N", "o", "v" >>, << "D", "e", "c" >> >>

\* A variant of WindowYears one year short.
WindowYears_short(year) == PyRange(year, year + 2)

\* range(current_year, current_year + 3)
WindowYears(year) == PyRange(year, year + 3)

\* range(1, 5)
Quarters == PyRange(1, 5)

\* str(year)[-2:]
YearSuffix(year) == Suffix(Str(year), 2)

\* [f"{month.upper()[:3]}{str(year)[-2:]}" for year in range(...) for month in [...]]
MonthCodes(year) ==
    Flatten([ i \in DOMAIN WindowYears(year) |->
                [ m \in DOMAIN MONTHS |->
                    Prefix(Upper(MONTHS[m]), 3) \o YearSuffix(WindowYears(year)[i]) ] ])

\* [f"{str(year)[-2:]}Q{q}" for year in range(...) for q in range(1, 5)]
QuarterCodes(year) ==
    Flatten([ i \in DOMAIN WindowYears(year) |->
                [ q \in DOMAIN Quarters |->
                    YearSuffix(WindowYears(year)[i]) \o << "Q" >> \o Str(Quarters[q]) ] ])

\* [f"{str(year)[-2:]}WIN" for year in range(...)], and likewise SUM, CAL, GY, SY
WinterCodes(year) ==
    [ i \in DOMAIN WindowYears(year) |-> YearSuffix(WindowYears(year)[i]) \o << "W", "I", "N" >> ]
SummerCodes(year) ==
    [ i \in DOMAIN WindowYears(year) |-> YearSuffix(WindowYears(year)[i]) \o << "S", "U", "M" >> ]
CalendarCodes(year) ==
    [ i \in DOMAIN WindowYears(year) |-> << "C", "A", "L" >> \o YearSuffix(WindowYears(year)[i]) ]
GasYearCodes(year) ==
    [ i \in DOMAIN WindowYears(year) |-> << "G", "Y" >> \o YearSuffix(WindowYears(year)[i]) ]
SummerYearCodes(year) ==
    [ i \in DOMAIN WindowYears(year) |-> << "S", "Y" >> \o YearSuffix(WindowYears(year)[i]) ]

predefined_options(year) ==
    Sorted(MonthCodes(year) \o QuarterCodes(year) \o WinterCodes(year) \o SummerCodes(year)
           \o CalendarCodes(year) \o GasYearCodes(year) \o SummerYearCodes(year))

\* date_repr = custom_code if custom_code else date_code
PeriodDateRepr(code, custom) == IF custom # Empty THEN custom ELSE code

(***************************************************************************)
(* The two worksheets (lines 46-74).                                       *)
(*                                                                         *)
(* A row of the record sheet is a dict over REQUIRED_COLUMNS whose values  *)
(* are strings.  Python's None and every other falsy value ("" and {})     *)
(* are the empty sequence.  Reading the clock is modelled by a logical     *)
(* time: the number of History rows written so far, plus one.              *)
(***************************************************************************)

None == << >>

\* load_data: the rows of the sheet as a DataFrame, a missing column filled with "".
load_data ==
    [ i \in DOMAIN sheet |->
        [ col \in REQUIRED_COLUMNS |-> IF col \in DOMAIN sheet[i] THEN sheet[i][col] ELSE Empty ] ]

\* save_data(df): sheet.clear(), then the header and every row of df are written.
save_data(df) == df

\* datetime.utcnow(), as text.
utcnow == Str(Len(history) + 1)

\* json.dumps(d): a text that holds d; it is never the empty string.
json_dumps(d) == << d >>

\* d.get(key, "")
Get(d, key) == IF key \in DOMAIN d THEN d[key] ELSE Empty

\* A variant of append_history that writes the new row at the top of the History sheet
\* (insert_row in place of append_row).
append_history_insert_row(action, row_data, old_data, comment, name) ==
    LET record ==
            "Timestamp" :> utcnow
         @@ "Action" :> action
         @@ "Name" :> Get(row_data, "Name")
         @@ "Point Name" :> Get(row_data, "Point Name")
         @@ "Data" :> json_dumps(row_data)
         @@ "Old Data" :> (IF old_data # None THEN json_dumps(old_data) ELSE Empty)
         @@ "Comment" :> (IF comment # None THEN comment ELSE Empty)
         @@ "User" :> (IF name # None THEN name ELSE Empty)
    IN  << record >> \o history

\* append_history(action, row_data, old_data=None, comment=None, name=None):
\* the History sheet after history_sheet.append_row(...).
append_history(action, row_data, old_data, comment, name) ==
    LET record ==
            "Timestamp" :> utcnow
         @@ "Action" :> action
         @@ "Name" :> Get(row_data, "Name")
         @@ "Point Name" :> Get(row_data, "Point Name")
         @@ "Data" :> json_dumps(row_data)
         @@ "Old Data" :> (IF old_data # None THEN json_dumps(old_data) ELSE Empty)
         @@ "Comment" :> (IF comment # None THEN comment ELSE Empty)
         @@ "User" :> (IF name # None THEN name ELSE Empty)
    IN  Append(history, record)

(***************************************************************************)
(* Tags known to the script (lines 119-123).                               *)
(***************************************************************************)

\* [t.strip() for t in s.split(",") if t.strip()]
StrippedTags(s) ==
    LET parts == Split(s)
        keep == [ i \in DOMAIN parts |-> Strip(parts[i]) # Empty ]
        kept == SelectIdx(parts, keep, 1)
    IN  [ i \in DOMAIN kept |-> Strip(kept[i]) ]

existing_tags(df) == UNION { Range(StrippedTags(df[i]["Tags"])) : i \in DOMAIN df }

all_tags(df) == SortedSet(Range(PREDEFINED_TAGS) \cup existing_tags(df))

(***************************************************************************)
(* What the user may enter: small sets of inputs.                          *)
(***************************************************************************)

\* The most History rows a behaviour writes.
MaxHistory == 2

NameInputs == { << "A" >>, << "B" >> }
CounterpartyInputs == { << "X" >> }
PointTypeInputs == { VirtualPoint, EntireCountry }
PointNameInputs == { << "P" >> }
VirtualPointChoices == { Other }
StoragePointChoices == { MMBF }
CountryInputs == { Hungary }
InfoInputs == { << "t", "e", "s", "t" >> }
TagPickInputs == { forecast }
CustomTagInputs == { Empty }
CustomCodeInputs == { Empty }

\* The selections of a multiselect over `options` that the model draws: none, or one
\* of TagPickInputs.
TagSelections(options) == { << >> } \cup { << t >> : t \in TagPickInputs \cap Range(options) }

(***************************************************************************)
(* One run of the script: the mode, the button pressed, how the run ended  *)
(* ("success": st.success and st.rerun; "warning": st.warning; "exception":*)
(* the run raised), the row the form described and the row selected.       *)
(***************************************************************************)

Run(mode, button, outcome, index, form) ==
    [ mode |-> mode, button |-> button, outcome |-> outcome, index |-> index, form |-> form ]

NoRun == Run("", "", "", 0, << >>)

(***************************************************************************)
(* A run of the script call by call, for several browser sessions on the   *)
(* same spreadsheet: where the run stands (pc), the frame load_data        *)
(* returned, the frame df the handler has built and will save, and the     *)
(* arguments of its append_history call.                                   *)
(***************************************************************************)

Sessions == { "s1", "s2" }

SessionRun(pc, mode, loaded, df, action, row_data, old_data, name) ==
    [ pc |-> pc, mode |-> mode, loaded |-> loaded, df |-> df, action |-> action,
      row_data |-> row_data, old_data |-> old_data, name |-> name ]

\* No run yet.
Idle == SessionRun("idle", "", << >>, << >>, "", << >>, << >>, << >>)

\* A run that is over: how it ended ("success", "warning" or "exception"); its frames
\* are gone.
Ended(outcome, mode) == SessionRun(outcome, mode, << >>, << >>, "", << >>, << >>, << >>)

NoRuns == [ s \in Sessions |-> Idle ]

(***************************************************************************)
(* "Add New" (lines 335-473).                                              *)
(***************************************************************************)

\* A variant of AddPointName without the final else branch: point_name keeps its
\* initial "" for "Entire Country".
AddPointName_no_else(point_type, typed, selected_vp, selected_sp) ==
    IF point_type = CrossborderPoint THEN typed
    ELSE IF point_type = VirtualPoint THEN (IF selected_vp = Other THEN typed ELSE selected_vp)
    ELSE IF point_type = Storage THEN (IF selected_sp = Other THEN typed ELSE selected_sp)
    ELSE Empty

\* Lines 342-359: the point name of the Add form.
AddPointName(point_type, typed, selected_vp, selected_sp) ==
    IF point_type = CrossborderPoint THEN typed
    ELSE IF point_type = VirtualPoint THEN (IF selected_vp = Other THEN typed ELSE selected_vp)
    ELSE IF point_type = Storage THEN (IF selected_sp = Other THEN typed ELSE selected_sp)
    ELSE EntireCountry

\* Lines 438-439 (and 566): ", ".join(sorted(set(selected + typed)))
TagsValue(selected_tags, custom_input) ==
    Join(<< ",", " " >>, SortedSet(Range(selected_tags) \cup Range(StrippedTags(custom_input))))

\* A variant of EntryExists with .all() in place of .any().
EntryExists_all(df, point_name, date_repr, counterparty) ==
    /\ df # << >>
    /\ \A i \in DOMAIN df :
          /\ df[i]["Point Name"] = point_name
          /\ df[i]["Date"] = date_repr
          /\ df[i]["Counterparty"] = counterparty

\* Line 446: the row is taken to exist already.
EntryExists(df, point_name, date_repr, counterparty) ==
    /\ df # << >>
    /\ \E i \in DOMAIN df :
          /\ df[i]["Point Name"] = point_name
          /\ df[i]["Date"] = date_repr
          /\ df[i]["Counterparty"] = counterparty

\* Lines 453-467: new_row; capacity and volume are left out of the form.
NewRow(timestamp, name, counterparty, country, point_type, point_name, date_repr, info, tags_value) ==
       "Timestamp" :> timestamp
    @@ "Name" :> name
    @@ "Counterparty" :> counterparty
    @@ "Country" :> country
    @@ "Point Type" :> point_type
    @@ "Point Name" :> point_name
    @@ "Date" :> date_repr
    @@ "Info" :> info
    @@ "Capacity Value" :> Empty
    @@ "Capacity Unit" :> Empty
    @@ "Volume Value" :> Empty
    @@ "Volume Unit" :> Empty
    @@ "Tags" :> tags_value

\* Lines 445-473, in "Add New" mode: the "Save Entry" button, for a form whose widgets
\* hold values of the given sets (tags picked among `picks`) and at most `limit` audit
\* entries.
SaveEntryOf(names, counterparties, point_types, typed_names, vps, sps, picks, limit) ==
    LET df == load_data IN
    /\ UNCHANGED << session_state, current_year, date_code, custom_code, runs >>
    /\ \E name \in names, counterparty \in counterparties,
       point_type \in point_types, typed \in typed_names,
       selected_vp \in vps, selected_sp \in sps,
       country \in CountryInputs, info \in InfoInputs,
       custom \in CustomCodeInputs,
       selected_tags \in { t \in TagSelections(all_tags(df)) : Range(t) \subseteq picks },
       custom_input \in CustomTagInputs :
        LET point_name == AddPointName(point_type, typed, selected_vp, selected_sp)
            date_repr == PeriodDateRepr(date_code, custom)
            tags_value == TagsValue(selected_tags, custom_input)
            new_row == NewRow(utcnow, name, counterparty, country, point_type, point_name,
                              date_repr, info, tags_value)
        IN  IF EntryExists(df, point_name, date_repr, counterparty)
            THEN /\ script_run' = Run("Add New", "Save Entry", "warning", 0, new_row)
                 /\ UNCHANGED << sheet, history >>
            ELSE /\ Len(history) < limit
                 /\ history' = append_history("create", new_row, None, None, name)
                 /\ sheet' = save_data(Append(df, new_row))
                 /\ script_run' = Run("Add New", "Save Entry", "success", 0, new_row)

SaveEntry ==
    SaveEntryOf(NameInputs, CounterpartyInputs, PointTypeInputs, PointNameInputs,
                VirtualPointChoices, StoragePointChoices, TagPickInputs, MaxHistory)

\* Lines 445-467 in the other modes: the button is drawn in every mode, and its handler
\* reads point_name (line 446) or name (line 455), which only "Add New" binds.
SaveEntryOutsideAdd ==
    /\ UNCHANGED << session_state, current_year, date_code, custom_code, runs >>
    /\ \E mode \in { "Edit Existing", "Delete" } :
        /\ script_run' = Run(mode, "Save Entry", "exception", 0, << >>)
        /\ UNCHANGED << sheet, history >>

(***************************************************************************)
(* Selecting a row to edit or delete (lines 482-487 and 597-602).          *)
(***************************************************************************)

\* f"{row['Counterparty']} | {row['Point Name']} | {row['Date']}"
UniqueKey(row) ==
    row["Counterparty"] \o << " ", "|", " " >> \o row["Point Name"]
        \o << " ", "|", " " >> \o row["Date"]

unique_keys(df) == [ i \in DOMAIN df |-> UniqueKey(df[i]) ]

\* unique_keys[unique_keys == selected_key].index[0]: the first row with that key.
SelectedIndex(keys, selected_key) ==
    CHOOSE i \in DOMAIN keys :
        keys[i] = selected_key /\ \A j \in 1 .. (i - 1) : keys[j] # selected_key

(***************************************************************************)
(* "Edit Existing" (lines 475-588).                                        *)
(***************************************************************************)

\* A variant of EditPointName whose final else branch keeps the text input's value.
EditPointName_no_else(new_point_type, typed, selected_vp, selected_sp) ==
    IF new_point_type = CrossborderPoint THEN typed
    ELSE IF new_point_type = VirtualPoint THEN (IF selected_vp = Other THEN typed ELSE selected_vp)
    ELSE IF new_point_type = Storage THEN (IF selected_sp = Other THEN typed ELSE selected_sp)
    ELSE typed

\* Lines 494-504: the point name of the Edit form.
EditPointName(new_point_type, typed, selected_vp, selected_sp) ==
    IF new_point_type = CrossborderPoint THEN typed
    ELSE IF new_point_type = VirtualPoint THEN (IF selected_vp = Other THEN typed ELSE selected_vp)
    ELSE IF new_point_type = Storage THEN (IF selected_sp = Other THEN typed ELSE selected_sp)
    ELSE EntireCountry

\* Lines 509-520: float(raw), or 0.0 when raw is no number; the float as text.
ZeroFloat == << "0", ".", "0" >>
InitialNumber(raw) ==
    IF raw # Empty /\ \A i \in DOMAIN raw : raw[i] \in { Digit(d) : d \in 0 .. 9 } \cup { "." }
    THEN raw
    ELSE ZeroFloat

\* Lines 532-534 and 552-554: the unit offered first unless the row holds a listed one.
CapacityUnits ==
    << << "k", "W", "h", "/", "h" >>, << "M", "W", "h", "/", "h" >>,
       << "G", "W", "h", "/", "h" >> >>
VolumeUnits == << << "M", "W" >>, << "M", "W", "h" >>, << "G", "W" >>, << "G", "W", "h" >> >>
DefaultUnit(options, old_unit) == IF old_unit \in Range(options) THEN old_unit ELSE options[1]

\* Line 562: the tags the row holds, as the multiselect's default.
existing_tag_list(row) ==
    IF row["Tags"] # Empty
    THEN LET parts == Split(row["Tags"]) IN [ i \in DOMAIN parts |-> Strip(parts[i]) ]
    ELSE << >>

\* A variant of EditedRow without the assignment of line 583: the Name is not written.
EditedRow_without_name(row, new_info, new_country, new_point_type, new_point_name, new_date, new_counterparty, new_capacity_value, new_capacity_unit, new_volume_value, new_volume_unit, tags_value, name) ==
    [ row EXCEPT
        !["Info"] = new_info,
        !["Country"] = new_country,
        !["Point Type"] = new_point_type,
        !["Point Name"] = new_point_name,
        !["Date"] = new_date,
        !["Counterparty"] = new_counterparty,
        !["Capacity Value"] = new_capacity_value,
        !["Capacity Unit"] = new_capacity_unit,
        !["Volume Value"] = new_volume_value,
        !["Volume Unit"] = new_volume_unit,
        !["Tags"] = tags_value ]

\* Lines 572-583: the row after the twelve df.at assignments.
EditedRow(row, new_info, new_country, new_point_type, new_point_name, new_date, new_counterparty, new_capacity_value, new_capacity_unit, new_volume_value, new_volume_unit, tags_value, name) ==
    [ row EXCEPT
        !["Info"] = new_info,
        !["Country"] = new_country,
        !["Point Type"] = new_point_type,
        !["Point Name"] = new_point_name,
        !["Date"] = new_date,
        !["Counterparty"] = new_counterparty,
        !["Capacity Value"] = new_capacity_value,
        !["Capacity Unit"] = new_capacity_unit,
        !["Volume Value"] = new_volume_value,
        !["Volume Unit"] = new_volume_unit,
        !["Tags"] = tags_value,
        !["Name"] = name ]

\* Lines 475-588: the mode "Edit Existing" and its "Save Changes" button, for a form
\* whose widgets hold values of the given sets and at most `limit` audit entries.  Info,
\* country, date, counterparty, capacity, volume and tags are left as the form shows them.
EditExistingOf(names, point_types, typed_names, vps, sps, limit) ==
    LET df == load_data IN
    /\ UNCHANGED << session_state, current_year, date_code, custom_code, runs >>
    /\ IF df = << >>
       THEN /\ script_run' = Run("Edit Existing", "", "warning", 0, << >>)
            /\ UNCHANGED << sheet, history >>
       ELSE \E option \in DOMAIN df,
               new_point_type \in point_types, typed \in typed_names,
               selected_vp \in vps, selected_sp \in sps,
               name \in names :
               LET keys == unique_keys(df)
                   selected_key == keys[option]
                   selected_index == SelectedIndex(keys, selected_key)
                   row_to_edit == df[selected_index]
                   new_point_name == EditPointName(new_point_type, typed, selected_vp, selected_sp)
                   tags_value == TagsValue(existing_tag_list(row_to_edit), Empty)
                   old_row == row_to_edit
                   new_row == EditedRow(row_to_edit, row_to_edit["Info"], row_to_edit["Country"],
                                        new_point_type, new_point_name, row_to_edit["Date"],
                                        row_to_edit["Counterparty"],
                                        InitialNumber(row_to_edit["Capacity Value"]),
                                        DefaultUnit(CapacityUnits, row_to_edit["Capacity Unit"]),
                                        InitialNumber(row_to_edit["Volume Value"]),
                                        DefaultUnit(VolumeUnits, row_to_edit["Volume Unit"]),
                                        tags_value, name)
                   edited == [ df EXCEPT ![selected_index] = new_row ]
               IN  /\ Len(history) < limit
                   /\ history' = append_history("edit", edited[selected_index], old_row, None, name)
                   /\ sheet' = save_data(edited)
                   /\ script_run' = Run("Edit Existing", "Save Changes", "success",
                                        selected_index, new_row)

EditExisting ==
    EditExistingOf(NameInputs, PointTypeInputs, PointNameInputs, VirtualPointChoices,
                   StoragePointChoices, MaxHistory)

(***************************************************************************)
(* "Delete" (lines 590-628).                                               *)
(***************************************************************************)

\* Whether a run in `mode` has bound row_to_edit: line 487, in the Edit branch, is its
\* only assignment, and every run starts with no names bound.
RowToEditBound(mode) == mode = "Edit Existing"

\* df.drop(index=selected_index) and df.reset_index(drop=True)
Drop(df, selected_index) ==
    [ i \in 1 .. (Len(df) - 1) |-> IF i < selected_index THEN df[i] ELSE df[i + 1] ]

\* Lines 590-628: the mode "Delete".  Line 606 reads row_to_edit before the
\* confirmation box and the "Delete Entry" button are drawn.
DeleteMode ==
    LET df == load_data IN
    /\ UNCHANGED << session_state, current_year, date_code, custom_code, runs >>
    /\ IF df = << >>
       THEN /\ script_run' = Run("Delete", "", "warning", 0, << >>)
            /\ UNCHANGED << sheet, history >>
       ELSE \E option \in DOMAIN df :
               LET keys == unique_keys(df)
                   selected_key == keys[option]
                   selected_index == SelectedIndex(keys, selected_key)
                   row_to_delete == df[selected_index]
                   deleted_data == row_to_delete
               IN  IF ~ RowToEditBound("Delete")
                   THEN /\ script_run' = Run("Delete", "", "exception", selected_index,
                                             row_to_delete)
                        /\ UNCHANGED << sheet, history >>
                   ELSE \E confirm \in BOOLEAN, name \in NameInputs :
                           IF confirm
                           THEN /\ Len(history) < MaxHistory
                                /\ history' = append_history("delete", deleted_data, None,
                                                             None, name)
                                /\ sheet' = save_data(Drop(df, selected_index))
                                /\ script_run' = Run("Delete", "Delete Entry", "success",
                                                     selected_index, row_to_delete)
                           ELSE /\ script_run' = Run("Delete", "", "", selected_index,
                                                     row_to_delete)
                                /\ UNCHANGED << sheet, history >>

(***************************************************************************)
(* The record store and its editor.                                        *)
(***************************************************************************)

\* The reference years the model draws: some from FirstReferenceYear on and as many from
\* RolloverYear on, where the two-digit year wraps around.
FirstReferenceYear == 2025
RolloverYear == 2098
NumReferenceYears == 2
ReferenceYears ==
    (FirstReferenceYear .. (FirstReferenceYear + NumReferenceYears - 1))
        \cup (RolloverYear .. (RolloverYear + NumReferenceYears - 1))

DefaultSessionState ==
    [ selected_counterparty |-> All, selected_point_type |-> All, selected_point_name |-> All,
      selected_tags |-> << >>, time_horizon_input |-> Empty, unified_search |-> Empty ]

\* A row entered before the behaviour starts.
SeedRow ==
    NewRow(<< "0" >>, << "A" >>, << "X" >>, Hungary, EntireCountry, EntireCountry,
           << "2", "5", "Q", "1" >>, << "t", "e", "s", "t" >>, Empty)

Init ==
    /\ sheet \in { << >>, << SeedRow >> }
    /\ history = << >>
    /\ script_run = NoRun
    /\ runs = NoRuns
    /\ session_state = DefaultSessionState
    /\ current_year = FirstReferenceYear
    /\ date_code = Head(predefined_options(current_year))
    /\ custom_code = Empty

Next ==
    \/ SaveEntry
    \/ SaveEntryOutsideAdd
    \/ EditExisting
    \/ DeleteMode

Spec == Init /\ [][Next]_vars

(***************************************************************************)
(* The Add and Edit forms with every point type and with blank text        *)
(* inputs, over a short history.                                           *)
(***************************************************************************)

\* The most audit entries of a behaviour of FormSpec.
MaxFormRuns == 1

FormNames == { << "A" >>, Empty }
FormCounterparties == { << "X" >>, Empty }
FormPointNames == { << "P" >>, Empty }
FormVirtualPoints == { MGP, Other }
FormStoragePoints == { MMBF, Other }

\* "Save Entry" with any point type and any choice of point.
SaveEntryAnyPoint ==
    SaveEntryOf({ << "A" >> }, { << "X" >> }, Range(POINT_TYPES), FormPointNames,
                FormVirtualPoints, FormStoragePoints, {}, MaxFormRuns)

\* "Save Entry" for a crossborder point with text inputs left blank.
SaveEntryBlank ==
    SaveEntryOf(FormNames, FormCounterparties, { CrossborderPoint }, FormPointNames,
                { Other }, { Other }, {}, MaxFormRuns)

\* "Save Changes" with any point type and any choice of point.
EditExistingAnyPoint ==
    EditExistingOf(FormNames, Range(POINT_TYPES), FormPointNames, FormVirtualPoints,
                   FormStoragePoints, MaxFormRuns)

FormNext ==
    \/ SaveEntryAnyPoint
    \/ SaveEntryBlank
    \/ EditExistingAnyPoint

FormSpec == Init /\ [][FormNext]_vars

(***************************************************************************)
(* Several browser sessions on the same spreadsheet.  Each run of the      *)
(* script loads the record worksheet (line 110), builds its frame, and its *)
(* handler calls append_history and then save_data, which is sheet.clear() *)
(* followed by sheet.update(...).  Each call to the spreadsheet is a step  *)
(* of its own, and each may raise (the request fails).                     *)
(***************************************************************************)

\* The most audit entries of a behaviour of SessionSpec.
MaxSessionEntries == 2

\* A variant of sheet_clear that leaves the worksheet as it is.
sheet_clear_skipped == sheet

\* Line 59, sheet.clear(): the worksheet without rows.
sheet_clear == << >>

\* Line 60, sheet.update(rows): the rows are written from the first cell on; rows of the
\* worksheet beyond them stay.
sheet_update(values) == values \o SubSeq(sheet, Len(values) + 1, Len(sheet))

\* A variant of HandlerCalls that saves first.
HandlerCalls_save_first == << "clear", "update", "append_history" >>

\* Lines 470-471, 585-586 and 625-626: the handler calls append_history(...) and then
\* save_data(df), which calls sheet.clear() and sheet.update(...).
HandlerCalls == << "append_history", "clear", "update" >>

\* The run after its call `call` has returned: at the next call, or over with st.success.
Advance(run) ==
    LET i == CHOOSE k \in DOMAIN HandlerCalls : HandlerCalls[k] = run.pc
    IN  IF i = Len(HandlerCalls)
        THEN Ended("success", run.mode)
        ELSE [ run EXCEPT !.pc = HandlerCalls[i + 1] ]

\* The name each session's user types into "Name (who did the change)".
SessionUser == [ s \in Sessions |-> IF s = "s1" THEN << "A" >> ELSE << "B" >> ]

\* A run can start: the session's last run is over, and the history has room.
CanStart(s) ==
    /\ runs[s].pc \in { "idle", "success", "warning", "exception" }
    /\ Len(history) < MaxSessionEntries

SessionFrame == UNCHANGED << script_run, session_state, current_year, date_code, custom_code >>

\* Lines 110 and 335-469: the run loads the rows, and "Save Entry" builds new_row and df.
StartSaveEntry(s) ==
    /\ CanStart(s)
    /\ LET df == load_data IN
       \E name \in { SessionUser[s] }, counterparty \in CounterpartyInputs,
          point_type \in PointTypeInputs, typed \in PointNameInputs,
          selected_vp \in VirtualPointChoices, selected_sp \in StoragePointChoices,
          country \in CountryInputs, info \in InfoInputs :
          LET point_name == AddPointName(point_type, typed, selected_vp, selected_sp)
              date_repr == PeriodDateRepr(date_code, Empty)
              new_row == NewRow(utcnow, name, counterparty, country, point_type, point_name,
                                date_repr, info, TagsValue(<< >>, Empty))
          IN  IF EntryExists(df, point_name, date_repr, counterparty)
              THEN runs' = [ runs EXCEPT ![s] = Ended("warning", "Add New") ]
              ELSE runs' = [ runs EXCEPT ![s] =
                               SessionRun(HandlerCalls[1], "Add New", df, Append(df, new_row),
                                          "create", new_row, None, name) ]
    /\ UNCHANGED << sheet, history >>
    /\ SessionFrame

\* Lines 110 and 475-583: the run loads the rows, and "Save Changes" rewrites one row of df.
StartSaveChanges(s) ==
    /\ CanStart(s)
    /\ LET df == load_data IN
       IF df = << >>
       THEN runs' = [ runs EXCEPT ![s] = Ended("warning", "Edit Existing") ]
       ELSE \E option \in DOMAIN df, new_point_type \in PointTypeInputs,
               typed \in PointNameInputs, selected_vp \in VirtualPointChoices,
               selected_sp \in StoragePointChoices, name \in { SessionUser[s] } :
               LET keys == unique_keys(df)
                   selected_index == SelectedIndex(keys, keys[option])
                   row_to_edit == df[selected_index]
                   new_point_name == EditPointName(new_point_type, typed, selected_vp, selected_sp)
                   new_row == EditedRow(row_to_edit, row_to_edit["Info"], row_to_edit["Country"],
                                        new_point_type, new_point_name, row_to_edit["Date"],
                                        row_to_edit["Counterparty"],
                                        InitialNumber(row_to_edit["Capacity Value"]),
                                        DefaultUnit(CapacityUnits, row_to_edit["Capacity Unit"]),
                                        InitialNumber(row_to_edit["Volume Value"]),
                                        DefaultUnit(VolumeUnits, row_to_edit["Volume Unit"]),
                                        TagsValue(existing_tag_list(row_to_edit), Empty), name)
               IN  runs' = [ runs EXCEPT ![s] =
                               SessionRun(HandlerCalls[1], "Edit Existing", df,
                                          [ df EXCEPT ![selected_index] = new_row ],
                                          "edit", new_row, row_to_edit, name) ]
    /\ UNCHANGED << sheet, history >>
    /\ SessionFrame

\* Lines 110 and 590-623: the run loads the rows in "Delete" mode; line 606 reads
\* row_to_edit.
StartDelete(s) ==
    /\ CanStart(s)
    /\ LET df == load_data IN
       IF df = << >>
       THEN runs' = [ runs EXCEPT ![s] = Ended("warning", "Delete") ]
       ELSE \E option \in DOMAIN df, name \in { SessionUser[s] } :
               LET keys == unique_keys(df)
                   selected_index == SelectedIndex(keys, keys[option])
                   row_to_delete == df[selected_index]
               IN  IF ~ RowToEditBound("Delete")
                   THEN runs' = [ runs EXCEPT ![s] = Ended("exception", "Delete") ]
                   ELSE runs' = [ runs EXCEPT ![s] =
                                    SessionRun(HandlerCalls[1], "Delete", df,
                                               Drop(df, selected_index), "delete",
                                               row_to_delete, None, name) ]
    /\ UNCHANGED << sheet, history >>
    /\ SessionFrame

\* Lines 470, 585 and 625: append_history(...) appends the row to "History".
AppendHistory(s) ==
    /\ runs[s].pc = "append_history"
    /\ Len(history) < MaxSessionEntries
    /\ history' = append_history(runs[s].action, runs[s].row_data, runs[s].old_data, None,
                                 runs[s].name)
    /\ runs' = [ runs EXCEPT ![s] = Advance(runs[s]) ]
    /\ UNCHANGED sheet
    /\ SessionFrame

\* Line 59, in save_data.
Clear(s) ==
    /\ runs[s].pc = "clear"
    /\ sheet' = sheet_clear
    /\ runs' = [ runs EXCEPT ![s] = Advance(runs[s]) ]
    /\ UNCHANGED history
    /\ SessionFrame

\* Line 60, in save_data; then st.success and st.rerun.
Update(s) ==
    /\ runs[s].pc = "update"
    /\ sheet' = sheet_update(runs[s].df)
    /\ runs' = [ runs EXCEPT ![s] = Advance(runs[s]) ]
    /\ UNCHANGED history
    /\ SessionFrame

\* The spreadsheet call the run is about to make raises: the run ends there.
RequestFails(s) ==
    /\ runs[s].pc \in { "append_history", "clear", "update" }
    /\ runs' = [ runs EXCEPT ![s] = Ended("exception", runs[s].mode) ]
    /\ UNCHANGED << sheet, history >>
    /\ SessionFrame

SessionNext ==
    \E s \in Sessions :
        \/ StartSaveEntry(s)
        \/ StartSaveChanges(s)
        \/ StartDelete(s)
        \/ AppendHistory(s)
        \/ Clear(s)
        \/ Update(s)
        \/ RequestFails(s)

\* Both sessions open the application on a spreadsheet that holds one row.
SessionInit ==
    /\ sheet = << SeedRow >>
    /\ history = << >>
    /\ script_run = NoRun
    /\ runs = NoRuns
    /\ session_state = DefaultSessionState
    /\ current_year = FirstReferenceYear
    /\ date_code = Head(predefined_options(current_year))
    /\ custom_code = Empty

SessionSpec == SessionInit /\ [][SessionNext]_vars

(***************************************************************************)
(* The hierarchical filter panel (lines 134-218).                          *)
(*                                                                         *)
(* get_all_records yields "" for a blank cell, never NaN, so dropna()      *)
(* removes nothing.  Each operator below is the script's variable of that  *)
(* name, or filtered_df after the stage named, as a function of the loaded *)
(* frame df and of st.session_state ss.                                    *)
(***************************************************************************)

\* A variant of BoolIndex whose mask is shifted by one row.
BoolIndex_shifted(df, mask) ==
    SelectIdx(df, [ i \in DOMAIN df |-> IF i = 1 THEN FALSE ELSE mask[i - 1] ], 1)

\* df[mask]: the rows of df whose mask entry is True, in order.
BoolIndex(df, mask) == SelectIdx(df, mask, 1)

\* sorted(df[column].dropna().unique().tolist())
UniqueValues(df, column) == SortedSet({ df[i][column] : i \in DOMAIN df })

\* Line 138.
counterparty_list(df) == UniqueValues(df, "Counterparty")

\* Lines 147-149: filtered_df after the counterparty stage.
ByCounterparty(df, ss) ==
    IF ss.selected_counterparty # All
    THEN BoolIndex(df, [ i \in DOMAIN df |-> df[i]["Counterparty"] = ss.selected_counterparty ])
    ELSE df

\* Line 151.
point_types(df, ss) == UniqueValues(ByCounterparty(df, ss), "Point Type")

\* Lines 157-158: filtered_df after the point type stage.
ByPointType(df, ss) ==
    LET f == ByCounterparty(df, ss) IN
    IF ss.selected_point_type # All
    THEN BoolIndex(f, [ i \in DOMAIN f |-> f[i]["Point Type"] = ss.selected_point_type ])
    ELSE f

\* Line 161.
point_names(df, ss) == UniqueValues(ByPointType(df, ss), "Point Name")

\* Lines 167-168: filtered_df after the point name stage.
ByPointName(df, ss) ==
    LET f == ByPointType(df, ss) IN
    IF ss.selected_point_name # All
    THEN BoolIndex(f, [ i \in DOMAIN f |-> f[i]["Point Name"] = ss.selected_point_name ])
    ELSE f

\* Lines 171-175: sorted({tag.strip() for tags in ... for tag in tags.split(",")})
tags_available(df, ss) ==
    LET f == ByPointName(df, ss) IN
    SortedSet(UNION { { Strip(tag) : tag \in Range(Split(f[i]["Tags"])) } : i \in DOMAIN f })

\* Line 183: any(tag in x for tag in st.session_state.selected_tags)
TagMatches(x, selected_tags) == \E k \in DOMAIN selected_tags : Contains(selected_tags[k], x)

\* Lines 181-184: filtered_df after the tag stage.
ByTags(df, ss) ==
    LET f == ByPointName(df, ss) IN
    IF ss.selected_tags # << >>
    THEN BoolIndex(f, [ i \in DOMAIN f |-> TagMatches(f[i]["Tags"], ss.selected_tags) ])
    ELSE f

\* Line 190: str.contains(pattern, case=False), for a pattern of letters, digits and
\* blanks (no character that a regular expression reads specially).
ContainsIgnoreCase(pattern, text) == Contains(Lower(pattern), Lower(text))

\* Lines 188-191: filtered_df after the date / period stage.
ByTimeHorizon(df, ss) ==
    LET f == ByTags(df, ss) IN
    IF ss.time_horizon_input # Empty
    THEN BoolIndex(f, [ i \in DOMAIN f |->
                          ContainsIgnoreCase(Strip(ss.time_horizon_input), f[i]["Date"]) ])
    ELSE f

\* Lines 201-211: row_matches_any_field
row_matches_any_field(row, search_lower) ==
    \E field \in { "Info", "Country", "Point Name", "Point Type", "Counterparty", "Date", "Tags" } :
        Contains(search_lower, Lower(Get(row, field)))

\* Lines 198-213: filtered_df after the search stage, the frame the page shows.
filtered_df(df, ss) ==
    LET f == ByTimeHorizon(df, ss) IN
    IF ss.unified_search # Empty
    THEN BoolIndex(f, [ i \in DOMAIN f |->
                          row_matches_any_field(f[i], Lower(ss.unified_search)) ])
    ELSE f

\* The options of the three select boxes (lines 141, 154, 164) and of the multiselect
\* (line 178).
CounterpartyOptions(df) == << All >> \o counterparty_list(df)
PointTypeOptions(df, ss) == << All >> \o point_types(df, ss)
PointNameOptions(df, ss) == << All >> \o point_names(df, ss)
TagOptions(df, ss) == tags_available(df, ss)

\* The widgets' values on a run (lines 139-180): a keyed widget keeps its value while the
\* value is among its options and takes its default otherwise, stage by stage.
Widgets(df, ss) ==
    LET s1 == [ ss EXCEPT !.selected_counterparty =
                    IF @ \in Range(CounterpartyOptions(df)) THEN @ ELSE All ]
        s2 == [ s1 EXCEPT !.selected_point_type =
                    IF @ \in Range(PointTypeOptions(df, s1)) THEN @ ELSE All ]
        s3 == [ s2 EXCEPT !.selected_point_name =
                    IF @ \in Range(PointNameOptions(df, s2)) THEN @ ELSE All ]
    IN  [ s3 EXCEPT !.selected_tags =
                    IF Range(@) \subseteq Range(TagOptions(df, s3)) THEN @ ELSE << >> ]

\* Lines 89-99: clear_all_filters pops the keys of these widgets (the date / period text
\* is not among them).
clear_all_filters(ss) ==
    [ ss EXCEPT !.selected_counterparty = All, !.selected_point_type = All,
                !.selected_point_name = All, !.selected_tags = << >>,
                !.unified_search = Empty ]

(***************************************************************************)
(* The filter panel over sample record sets: the user changes one widget   *)
(* and the script runs again.                                              *)
(***************************************************************************)

\* The most rows of a sample record set, and the most tags selected at once.
MaxRows == 2
MaxSelectedTags == 2

TimeHorizonInputs == { Empty, << "q", "1" >>, << " " >> }
SearchInputs == { Empty, << "T", "E", "S", "T" >>, << "x" >> }

\* Rows that "Save Entry" writes: two tags; a typed tag that contains another tag; no tags;
\* no counterparty and no point name.
SampleRows ==
    { NewRow(<< "1" >>, << "A" >>, << "X" >>, Hungary, VirtualPoint, MGP,
             << "2", "5", "Q", "1" >>, << "t", "e", "s", "t" >>,
             forecast \o << ",", " " >> \o outage),
      NewRow(<< "2" >>, << "B" >>, << "X" >>, Hungary, EntireCountry, EntireCountry,
             << "C", "A", "L", "2", "5" >>, << "t", "e", "s", "t" >>,
             forecast \o << "-", "l", "o", "n", "g" >>),
      NewRow(<< "3" >>, << "A" >>, << "Y" >>, Austria, EntireCountry, EntireCountry,
             << "2", "5", "Q", "1" >>, << "i", "n", "f", "o" >>, Empty),
      NewRow(<< "4" >>, << "B" >>, Empty, Austria, CrossborderPoint, Empty,
             << "2", "5", "Q", "2" >>, << "i", "n", "f", "o" >>, outage) }

SampleFrames ==
    UNION { { f \in [ 1 .. n -> SampleRows ] : \A i, j \in 1 .. n : i # j => f[i] # f[j] }
            : n \in 0 .. MaxRows }

\* The selections a multiselect over `options` yields: some options, in the options' order.
Selections(options) ==
    { SelectIdx(options, [ i \in DOMAIN options |-> i \in chosen ], 1) :
        chosen \in { c \in SUBSET DOMAIN options : Cardinality(c) <= MaxSelectedTags } }

FilterInit ==
    /\ sheet \in SampleFrames
    /\ history = << >>
    /\ script_run = NoRun
    /\ runs = NoRuns
    /\ session_state = DefaultSessionState
    /\ current_year = FirstReferenceYear
    /\ date_code = Head(predefined_options(current_year))
    /\ custom_code = Empty

FilterFrame ==
    UNCHANGED << sheet, history, script_run, current_year, date_code, custom_code, runs >>

SelectCounterparty ==
    /\ \E v \in Range(CounterpartyOptions(load_data)) :
          session_state' = Widgets(load_data, [ session_state EXCEPT !.selected_counterparty = v ])
    /\ FilterFrame

SelectPointType ==
    /\ \E v \in Range(PointTypeOptions(load_data, session_state)) :
          session_state' = Widgets(load_data, [ session_state EXCEPT !.selected_point_type = v ])
    /\ FilterFrame

SelectPointName ==
    /\ \E v \in Range(PointNameOptions(load_data, session_state)) :
          session_state' = Widgets(load_data, [ session_state EXCEPT !.selected_point_name = v ])
    /\ FilterFrame

SelectTags ==
    /\ \E v \in Selections(TagOptions(load_data, session_state)) :
          session_state' = Widgets(load_data, [ session_state EXCEPT !.selected_tags = v ])
    /\ FilterFrame

EnterTimeHorizon ==
    /\ \E v \in TimeHorizonInputs :
          session_state' = Widgets(load_data, [ session_state EXCEPT !.time_horizon_input = v ])
    /\ FilterFrame

EnterSearch ==
    /\ \E v \in SearchInputs :
          session_state' = Widgets(load_data, [ session_state EXCEPT !.unified_search = v ])
    /\ FilterFrame

ClearSelection ==
    /\ session_state' = Widgets(load_data, clear_all_filters(session_state))
    /\ FilterFrame

FilterNext ==
    \/ SelectCounterparty
    \/ SelectPointType
    \/ SelectPointName
    \/ SelectTags
    \/ EnterTimeHorizon
    \/ EnterSearch
    \/ ClearSelection

FilterSpec == FilterInit /\ [][FilterNext]_vars

(***************************************************************************)
(* The period code of the Add form: the year turns, the user picks a code  *)
(* or types one.                                                           *)
(***************************************************************************)

PeriodCodeTexts == { Empty, << "Z" >> }

TenorInit ==
    /\ sheet = << >>
    /\ history = << >>
    /\ script_run = NoRun
    /\ runs = NoRuns
    /\ session_state = DefaultSessionState
    /\ current_year \in ReferenceYears
    /\ date_code = Head(predefined_options(current_year))
    /\ custom_code = Empty

TenorFrame == UNCHANGED << sheet, history, script_run, session_state, current_year, runs >>

\* Line 394: the user picks one of predefined_options.
SelectPeriodCode ==
    /\ date_code' \in Range(predefined_options(current_year))
    /\ UNCHANGED custom_code
    /\ TenorFrame

\* Line 395: the user types a custom code, or clears it.
EnterCustomCode ==
    /\ \E text \in PeriodCodeTexts : custom_code' = text
    /\ UNCHANGED date_code
    /\ TenorFrame

TenorNext ==
    \/ SelectPeriodCode
    \/ EnterCustomCode

TenorSpec == TenorInit /\ [][TenorNext]_vars

(***************************************************************************)
(* Properties of the record store and its editor, under Spec.              *)
(***************************************************************************)

\* The step is a press of "Save Entry" in "Add New" mode.
AddStep == script_run'.mode = "Add New" /\ script_run'.button = "Save Entry"
\* The step is a press of "Save Changes".
EditStep == script_run'.mode = "Edit Existing" /\ script_run'.button = "Save Changes"
\* The step is a run in "Delete" mode (the "Save Entry" button not pressed).
DeleteStep == script_run'.mode = "Delete" /\ script_run'.button # "Save Entry"

\* The step appends exactly one row to the History sheet and rewrites none.
OneEntryAppended ==
    /\ Len(history') = Len(history) + 1
    /\ SubSeq(history', 1, Len(history)) = history

SameTriple(a, b) ==
    /\ a["Counterparty"] = b["Counterparty"]
    /\ a["Point Name"] = b["Point Name"]
    /\ a["Date"] = b["Date"]

\* C1, as claimed: an Add whose Name equals the Name of a live record is rejected: the
\* record set is unchanged and no audit entry is appended.
C1_DuplicateNameRejected ==
    [][ (AddStep /\ \E i \in DOMAIN sheet : sheet[i]["Name"] = script_run'.form["Name"])
            => (sheet' = sheet /\ history' = history /\ script_run'.outcome = "warning") ]_vars

\* C1, amended: an Add whose Counterparty, Point Name and Date all equal those of one live
\* record is rejected with a warning, whatever its other fields are: the record set is
\* unchanged and no audit entry is appended.
C1_DuplicateEntryRejected ==
    [][ (AddStep /\ \E i \in DOMAIN sheet : SameTriple(sheet[i], script_run'.form))
            => (sheet' = sheet /\ history' = history /\ script_run'.outcome = "warning") ]_vars

\* C1, witness: a rejected Add whose triple is that of a live record of another Name, beside
\* a live record of another triple.
C1_Witness ==
    /\ script_run.mode = "Add New"
    /\ script_run.outcome = "warning"
    /\ \E i \in DOMAIN sheet :
          SameTriple(sheet[i], script_run.form) /\ sheet[i]["Name"] # script_run.form["Name"]
    /\ \E i \in DOMAIN sheet : ~ SameTriple(sheet[i], script_run.form)

\* C2: every step leaves the History rows written so far in place and unchanged and adds
\* at most one row, after them; a run that ends in success adds exactly one; and in every
\* state a call of append_history, for each action kind and each live row, yields the
\* History sheet with exactly one row more, the new row last and of that action kind.
C2_HistoryAppendOnly ==
    /\ [][ /\ Len(history') \in { Len(history), Len(history) + 1 }
           /\ SubSeq(history', 1, Len(history)) = history
           /\ script_run'.outcome = "success" => Len(history') = Len(history) + 1 ]_vars
    /\ [](\A action \in { "create", "edit", "delete" } :
            \A i \in DOMAIN sheet : \A old_data \in { None, sheet[i] } :
               LET after == append_history(action, sheet[i], old_data, None, sheet[i]["Name"])
               IN  /\ Len(after) = Len(history) + 1
                   /\ SubSeq(after, 1, Len(history)) = history
                   /\ after[Len(after)]["Action"] = action
                   /\ after[Len(after)]["Data"] = json_dumps(sheet[i]))

\* C2, witness: the History sheet holds a "create" row followed by an "edit" row.
C2_Witness ==
    /\ Len(history) = 2
    /\ history[1]["Action"] = "create"
    /\ history[2]["Action"] = "edit"
    /\ script_run.outcome = "success"

\* C3: an Add that succeeds adds one record after the others, which stay as they were, and
\* appends one "create" audit entry with the new record's Name and no prior state; on an
\* empty record set with point type "Entire Country" the record count becomes 1 and the
\* stored point name is "Entire Country".
C3_SuccessfulAdd ==
    [][ (AddStep /\ script_run'.outcome = "success")
            => LET new == sheet'[Len(sheet')]
                   entry == history'[Len(history')]
               IN  /\ Len(sheet') = Len(sheet) + 1
                   /\ SubSeq(sheet', 1, Len(sheet)) = sheet
                   /\ new = script_run'.form
                   /\ OneEntryAppended
                   /\ entry["Action"] = "create"
                   /\ entry["Name"] = new["Name"]
                   /\ entry["Data"] = json_dumps(new)
                   /\ entry["Old Data"] = Empty
                   /\ (sheet = << >> /\ new["Point Type"] = EntireCountry)
                         => (Len(sheet') = 1 /\ sheet'[1]["Point Name"] = EntireCountry) ]_vars

\* C3, witness: scenario 1: the record set was empty and holds the record A / Hungary /
\* Entire Country / test, and the History sheet its "create" entry.
C3_Witness ==
    /\ script_run.mode = "Add New"
    /\ script_run.outcome = "success"
    /\ Len(sheet) = 1
    /\ sheet[1]["Name"] = << "A" >>
    /\ sheet[1]["Country"] = Hungary
    /\ sheet[1]["Point Type"] = EntireCountry
    /\ sheet[1]["Point Name"] = EntireCountry
    /\ sheet[1]["Info"] = << "t", "e", "s", "t" >>
    /\ Len(history) = 1
    /\ history[1]["Action"] = "create"
    /\ history[1]["Name"] = << "A" >>

\* C4, as claimed: a run in Delete mode over a non-empty record set does not fail, and
\* the confirmed "Delete Entry" removes the selected record, keeps the others in order and
\* appends one "delete" audit entry holding the removed record.
C4_DeleteCompletes ==
    [][ (DeleteStep /\ sheet # << >>)
            => /\ script_run'.outcome # "exception"
               /\ script_run'.button = "Delete Entry"
                    => /\ sheet' = Drop(sheet, script_run'.index)
                       /\ OneEntryAppended
                       /\ history'[Len(history')]["Action"] = "delete"
                       /\ history'[Len(history')]["Data"] = json_dumps(sheet[script_run'.index])
      ]_vars

\* C5, as claimed: an Edit keeps the record's Name, the number of records and every other
\* record, and appends one "edit" audit entry with the prior and the new state.
C5_EditKeepsName ==
    [][ (EditStep /\ script_run'.outcome = "success")
            => LET k == script_run'.index
                   entry == history'[Len(history')]
               IN  /\ sheet'[k]["Name"] = sheet[k]["Name"]
                   /\ Len(sheet') = Len(sheet)
                   /\ \A j \in DOMAIN sheet \ {k} : sheet'[j] = sheet[j]
                   /\ OneEntryAppended
                   /\ entry["Action"] = "edit"
                   /\ entry["Old Data"] = json_dumps(sheet[k])
                   /\ entry["Data"] = json_dumps(sheet'[k]) ]_vars

\* C5, amended: an Edit rewrites the selected record in place: the number of records and
\* every other record are unchanged, the record keeps its position and its Timestamp, its
\* Name becomes the Name entered in the form (the user the audit entry records; it may
\* differ from the old Name), and one "edit" audit entry is appended with the prior state
\* as old and the new state as new.
C5_EditInPlace ==
    [][ (EditStep /\ script_run'.outcome = "success")
            => LET k == script_run'.index
                   entry == history'[Len(history')]
               IN  /\ k \in DOMAIN sheet
                   /\ Len(sheet') = Len(sheet)
                   /\ \A j \in DOMAIN sheet \ {k} : sheet'[j] = sheet[j]
                   /\ sheet'[k] = script_run'.form
                   /\ sheet'[k]["Timestamp"] = sheet[k]["Timestamp"]
                   /\ sheet'[k]["Name"] = entry["User"]
                   /\ entry["Name"] = sheet'[k]["Name"]
                   /\ OneEntryAppended
                   /\ entry["Action"] = "edit"
                   /\ entry["Old Data"] = json_dumps(sheet[k])
                   /\ entry["Data"] = json_dumps(sheet'[k]) ]_vars

\* C5, witness: an Edit of the second of two records succeeded and changed its Name.
C5_Witness ==
    /\ script_run.mode = "Edit Existing"
    /\ script_run.outcome = "success"
    /\ Len(sheet) = 2
    /\ script_run.index = 2
    /\ history # << >>
    /\ LET entry == history[Len(history)]
       IN  /\ entry["Action"] = "edit"
           /\ entry["Old Data"] # Empty
           /\ entry["Old Data"][1]["Name"] # sheet[2]["Name"]
           /\ entry["Data"] = json_dumps(sheet[2])

\* C11: every live record obeys the point-name rule of its point type: "Entire Country"
\* has the point name "Entire Country", a "Virtual Point" has a name of VIRTUAL_POINTS, a
\* "Storage" has a name of STORAGE_POINTS; only a "Crossborder Point" has a free name.
C11_PointNameDomain ==
    \A i \in DOMAIN sheet :
        /\ sheet[i]["Point Type"] = EntireCountry => sheet[i]["Point Name"] = EntireCountry
        /\ sheet[i]["Point Type"] = VirtualPoint => sheet[i]["Point Name"] \in Range(VIRTUAL_POINTS)
        /\ sheet[i]["Point Type"] = Storage => sheet[i]["Point Name"] \in Range(STORAGE_POINTS)

\* C11, as the forms have it: every live record has one of the four point types, and an
\* "Entire Country" record has the point name "Entire Country"; under every other point
\* type the name may be free text, since "Other..." opens a text input.
C11_EntireCountryRule ==
    \A i \in DOMAIN sheet :
        /\ sheet[i]["Point Type"] \in Range(POINT_TYPES)
        /\ sheet[i]["Point Type"] = EntireCountry => sheet[i]["Point Name"] = EntireCountry

\* An Edit has just turned a virtual point with a typed name into "Entire Country".
C11_Witness ==
    /\ script_run.mode = "Edit Existing"
    /\ script_run.outcome = "success"
    /\ sheet[script_run.index]["Point Type"] = EntireCountry
    /\ history[Len(history)]["Old Data"][1]["Point Type"] = VirtualPoint
    /\ history[Len(history)]["Old Data"][1]["Point Name"] \notin Range(VIRTUAL_POINTS)

\* C15: starting from a record set without two records of the same Counterparty, Point
\* Name and Date, after any Add, Edit and Delete operations no two live records share that
\* triple, so the key "Counterparty | Point Name | Date" designates exactly one record.
C15_TripleUnique ==
    \A i, j \in DOMAIN sheet : SameTriple(sheet[i], sheet[j]) => i = j

(***************************************************************************)
(* Properties of the Add form with blank inputs, under FormSpec.           *)
(***************************************************************************)

\* The form leaves a required field out: no Name, no Counterparty, or no point name.
MissingRequiredField(form) ==
    \/ form["Name"] = Empty
    \/ form["Counterparty"] = Empty
    \/ form["Point Name"] = Empty

\* C12: an Add with a required field missing (Name, Counterparty, or the point name of a
\* crossborder point) is aborted: the record set is unchanged and no audit entry is
\* appended.
C12_MissingFieldAborts ==
    [][ (AddStep /\ MissingRequiredField(script_run'.form))
            => (sheet' = sheet /\ history' = history /\ script_run'.outcome # "success") ]_vars

(***************************************************************************)
(* Properties of concurrent sessions and of the order of the spreadsheet   *)
(* calls, under SessionSpec.                                               *)
(***************************************************************************)

\* The session's run is between its load and the end of its handler.
InHandler(run) == run.pc \in { "append_history", "clear", "update" }

\* The step starts a run of session s in the given mode.
StartsRun(s, mode) == ~ InHandler(runs[s]) /\ runs'[s] # runs[s] /\ runs'[s].mode = mode

\* The row an audit entry carries as its new state.
EntryRow(entry) == entry["Data"][1]

\* C13: each session loads the full record set, and each save replaces the store
\* wholesale, whatever the other session has written since: it removes every row and then
\* writes the saving session's own frame (the rows it loaded, with its own change) from
\* the first row on, so the last write wins.
C13_LastWriteWins ==
    [][ \A s \in Sessions :
          /\ (~ InHandler(runs[s]) /\ InHandler(runs'[s])) => runs'[s].loaded = sheet
          /\ (runs[s].pc = "clear" /\ runs'[s].pc = "update") => sheet' = << >>
          /\ (runs[s].pc = "update" /\ runs'[s].pc = "success")
                => /\ SubSeq(sheet', 1, Len(runs[s].df)) = runs[s].df
                   /\ sheet = << >> => sheet' = runs[s].df ]_vars

\* Both sessions have added a row and seen "Information saved": both audit entries are
\* there, and the store holds the row of one session and not the row of the other.
C13_Witness ==
    /\ \A s \in Sessions : runs[s] = Ended("success", "Add New")
    /\ Len(history) = 2
    /\ history[1]["Action"] = "create" /\ history[2]["Action"] = "create"
    /\ history[1]["User"] # history[2]["User"]
    /\ \E lost, kept \in { 1, 2 } :
          /\ lost # kept
          /\ EntryRow(history[lost]) \notin Range(sheet)
          /\ sheet = << SeedRow, EntryRow(history[kept]) >>

\* Every change of the record store is made by a run whose audit entry, of that run's
\* action, is already in the history.
AuditPrecedesStore ==
    [][ sheet' # sheet =>
          \E s \in Sessions :
             /\ runs[s].pc \in { "clear", "update" }
             /\ \E k \in DOMAIN history :
                   /\ history[k]["Action"] = runs[s].action
                   /\ history[k]["Data"] = json_dumps(runs[s].row_data) ]_vars

\* A run whose append_history call fails writes nothing: it ends there.
FailedAppendWritesNothing ==
    [][ \A s \in Sessions :
          (runs[s].pc = "append_history" /\ runs'[s].pc = "exception")
              => (sheet' = sheet /\ history' = history /\ ~ InHandler(runs'[s])) ]_vars

\* A run that starts in the given mode over a non-empty record set goes on to append
\* its audit entry of the given action (an Add of an existing triple is warned off
\* instead).
AppendsFirst(mode, action) ==
    \A s \in Sessions :
        (StartsRun(s, mode) /\ sheet # << >> /\ runs'[s].pc # "warning")
            => (runs'[s].pc = "append_history" /\ runs'[s].action = action)

\* C14: in each of Add, Edit and Delete the audit entry is appended before the record
\* store is overwritten: a handler's first call is append_history, every change of the
\* store is made by a run whose audit entry of the matching action is already in the
\* history, and a run whose audit append fails writes nothing to the store.  (A run that
\* fails in save_data leaves its audit entry behind: C14_Witness.)
C14_AuditBeforeStore ==
    /\ AuditPrecedesStore
    /\ FailedAppendWritesNothing
    /\ [][AppendsFirst("Add New", "create")]_vars
    /\ [][AppendsFirst("Edit Existing", "edit")]_vars

\* The first session's Add has appended its audit entry and has then failed in
\* save_data: the entry is in the history, the store is as it was.
C14_Witness ==
    /\ runs["s1"] = Ended("exception", "Add New")
    /\ runs["s2"] = Idle
    /\ Len(history) = 1
    /\ history[1]["Action"] = "create"
    /\ history[1]["User"] = SessionUser["s1"]
    /\ sheet = << SeedRow >>

(***************************************************************************)
(* Properties of the filter panel, under FilterSpec.                       *)
(***************************************************************************)

\* The tags of a record: the comma-separated parts of its Tags field, trimmed, the empty
\* ones left out.
RecordTags(x) == { Strip(tag) : tag \in Range(Split(x)) } \ { Empty }

\* The distinct non-empty values of a column.
NonEmptyValues(df, column) == { df[i][column] : i \in DOMAIN df } \ { Empty }

\* a is b with some rows left out, the others in b's order.
IsSubCollection(a, b) ==
    \E kept \in SUBSET DOMAIN b : a = SelectIdx(b, [ i \in DOMAIN b |-> i \in kept ], 1)

\* C6: with at least one tag selected, the tag stage retains a record if and only if one
\* of the record's comma-separated tags, trimmed, equals one of the selected tags; a
\* record whose tag only contains a selected tag as a proper substring is not retained.
C6_TagStageExactMatch ==
    session_state.selected_tags # << >> =>
        LET f == ByPointName(load_data, session_state)
        IN  ByTags(load_data, session_state)
                = SelectIdx(f, [ i \in DOMAIN f |->
                                   RecordTags(f[i]["Tags"]) \cap Range(session_state.selected_tags)
                                       # {} ], 1)

\* C7: with at least one tag selected, whatever the multiselect offered, the tag stage
\* retains no record whose Tags field is empty.
C7_UntaggedNeverRetained ==
    session_state.selected_tags # << >> =>
        \A row \in Range(ByTags(load_data, session_state)) : row["Tags"] # Empty

\* C8: the options of each categorical stage are exactly the distinct non-empty values of
\* its field over the records that survive the earlier stages, plus "All" for the three
\* select boxes (the tag stage's sentinel is the empty selection); no empty option.
C8_OptionSets ==
    LET df == load_data
        ss == session_state
    IN  /\ Range(CounterpartyOptions(df)) = { All } \cup NonEmptyValues(df, "Counterparty")
        /\ Range(PointTypeOptions(df, ss))
               = { All } \cup NonEmptyValues(ByCounterparty(df, ss), "Point Type")
        /\ Range(PointNameOptions(df, ss))
               = { All } \cup NonEmptyValues(ByPointType(df, ss), "Point Name")
        /\ Range(TagOptions(df, ss))
               = UNION { RecordTags(row["Tags"]) : row \in Range(ByPointName(df, ss)) }

\* C9: for every record set and every filter state, the filter's output is a
\* sub-collection of the record set, and the filter applied to its own output under the
\* same filter state returns that output.
C9_FilterIdempotent ==
    \A out \in { filtered_df(load_data, session_state) } :
        /\ IsSubCollection(out, load_data)
        /\ filtered_df(out, session_state) = out

\* Every stage restricts, and the output is a proper, non-empty part of the record set.
C9_Witness ==
    /\ session_state.selected_counterparty # All
    /\ session_state.selected_tags # << >>
    /\ session_state.time_horizon_input # Empty
    /\ session_state.unified_search # Empty
    /\ filtered_df(load_data, session_state) # << >>
    /\ Len(filtered_df(load_data, session_state)) < Len(load_data)

(***************************************************************************)
(* Properties of the period codes, under TenorSpec.                        *)
(***************************************************************************)

\* The two-digit suffix of a year, from its value.
TwoDigits(y) == << Digit((y % 100) \div 10), Digit(y % 10) >>

MonthAbbreviations ==
    { << "J", "A", "N" >>, << "F", "E", "B" >>, << "M", "A", "R" >>, << "A", "P", "R" >>,
      << "M", "A", "Y" >>, << "J", "U", "N" >>, << "J", "U", "L" >>, << "A", "U", "G" >>,
      << "S", "E", "P" >>, << "O", "C", "T" >>, << "N", "O", "V" >>, << "D", "E", "C" >> }

\* The codes of one year y: MONyy, yyQ1..yyQ4, yyWIN, yySUM, CALyy, GYyy, SYyy.
CodesOfYear(y) ==
    { mon \o TwoDigits(y) : mon \in MonthAbbreviations }
        \cup { TwoDigits(y) \o << "Q", Digit(q) >> : q \in 1 .. 4 }
        \cup { TwoDigits(y) \o << "W", "I", "N" >>, TwoDigits(y) \o << "S", "U", "M" >>,
               << "C", "A", "L" >> \o TwoDigits(y), << "G", "Y" >> \o TwoDigits(y),
               << "S", "Y" >> \o TwoDigits(y) }

\* C10: for a reference year Y the period codes are 63 entries without duplicates, they
\* are exactly the codes of the years Y, Y+1 and Y+2, and they are in ascending
\* lexicographic order.
C10_TenorVocabulary ==
    \A options \in { predefined_options(current_year) } :
        /\ Len(options) = 63
        /\ Cardinality(Range(options)) = 63
        /\ Range(options) = UNION { CodesOfYear(y) : y \in current_year .. (current_year + 2) }
        /\ \A i \in 1 .. (Len(options) - 1) : StrLess(options[i], options[i + 1])

\* In the last year of a century the user has picked a code of the year after next.
C10_Witness ==
    /\ current_year % 100 = 99
    /\ date_code = << "J", "A", "N", "0", "1" >>
    /\ date_code \in Range(predefined_options(current_year))

====
